---- MODULE Spec2Model ----
(***************************************************************************)
(* The upload / run / reset orchestration of src/App.tsx (component App)   *)
(* with the two Dropzone components of src/components/Dropzone.tsx.        *)
(*                                                                         *)
(* Every synchronous segment of a handler (the code between two awaits) is *)
(* one atomic action: JavaScript runs it to completion and React commits   *)
(* the state updates it queued before the next event is delivered.         *)
(* services/transformer (transformData) is not part of the source tree; it *)
(* is modelled from its contract (IngestOutcomes, ProcessOutcomes,         *)
(* TransformerLog).                                                        *)
(***************************************************************************)
EXTENDS Naturals, Sequences, FiniteSets

\* ---------------------------------------------------------------- bounds
MaxFiles   == 2   \* File objects the user selects in one behaviour
MaxPending == 2   \* handleFileChange calls awaiting transformData at once
MaxLog     == 4   \* entries the log holds before it is cleared
MaxResets  == 2   \* values of resetKey above 0
MaxRuns    == 2   \* handleRunTransformation calls in flight at once

\* ---------------------------------------------------------------- values
FileTypes == {"input", "results"}

NULL == [null |-> TRUE]

\* The k-th File object handed to onFileSelect (each selection is a new object).
File(k) == [name |-> k]

\* A log / error message: a template and the value interpolated into it.
Msg(tpl, arg) == [tpl |-> tpl, arg |-> arg]

LogEntry(message, type) == [message |-> message, type |-> type]

\* ---------------------------------------------------- services/transformer
\* jsonData of a file that validates: the normalized record set of that file.
JsonData(file) == [rowsOf |-> file.name]

\* validation.errors of a file that does not validate: one message per
\* violation, in the order encountered, at least one.
ValidationErrors ==
    { << Msg("missing required column", 1) >>,
      << Msg("not a valid number in row", 2), Msg("missing required column", 1) >> }

\* What `await transformData(type, file, addLog)` can settle to.
IngestOutcomes(file) ==
    { [kind |-> "valid", jsonData |-> JsonData(file), errors |-> << >>] }
    \cup { [kind |-> "invalid", jsonData |-> NULL, errors |-> es] : es \in ValidationErrors }
    \cup { [kind |-> "throw", jsonData |-> NULL, errors |-> << Msg("cannot read file", NULL) >>] }

\* The keys of OutputData.
Categories == {"scouted", "retrieved", "contacted"}

\* The three record sequences a classification can give: every category
\* filled, or no parcel with a matching result (all of them scouted).
Classifications ==
    { [k \in Categories |-> << [category |-> k] >>],
      [k \in Categories |-> IF k = "scouted" THEN << [category |-> k] >> ELSE << >>] }

\* What `await transformData('process', null, addLog, input, results)` can
\* settle to: a bundle computed from its two arguments (input and results
\* record what it was computed from), no output, or an exception; without
\* both record sets it cannot produce a bundle.
ProcessOutcomes(input, results) ==
    { [kind |-> "none", output |-> NULL], [kind |-> "throw", output |-> NULL] }
    \cup IF input # NULL /\ results # NULL
         THEN { [kind |-> "output",
                 output |-> [input |-> input, results |-> results,
                             scouted |-> c["scouted"], retrieved |-> c["retrieved"],
                             contacted |-> c["contacted"]]] : c \in Classifications }
         ELSE { }

\* ----------------------------------------------------------------- state
VARIABLES
    files,          \* App.tsx:22   useState files
    fileStatus,     \* App.tsx:26   useState fileStatus
    fileErrors,     \* App.tsx:30   useState fileErrors
    logs,           \* App.tsx:35   useState logs (timestamps left out)
    isProcessing,   \* App.tsx:36   useState isProcessing
    outputData,     \* App.tsx:37   useState outputData
    resetKey,       \* App.tsx:40   useState resetKey
    fileDataCache,  \* App.tsx:42   useRef fileDataCache.current
    pending,        \* handleFileChange calls suspended at the await of line 58
    runs,           \* handleRunTransformation calls suspended at line 91 ("delay")
                    \* or 94 ("processing", with the arguments of the call);
                    \* atStart and prevOutput are history: fileDataCache and
                    \* outputData as they were when the call was accepted
    nextFile,       \* number of the next File object the user selects
    lastEnded,      \* history: how the last run ended, and the outputData it was started with
    lastSaved       \* the last window.saveAs(blob, fileName) call: the file handed to the browser

vars == << files, fileStatus, fileErrors, logs, isProcessing, outputData,
           resetKey, fileDataCache, pending, runs, nextFile, lastEnded, lastSaved >>

Init ==
    /\ files = [t \in FileTypes |-> NULL]
    /\ fileStatus = [t \in FileTypes |-> "waiting"]
    /\ fileErrors = [t \in FileTypes |-> NULL]
    /\ logs = << >>
    /\ isProcessing = FALSE
    /\ outputData = NULL
    /\ resetKey = 0
    /\ fileDataCache = [t \in FileTypes |-> NULL]
    /\ pending = { }
    /\ runs = << >>
    /\ nextFile = 1
    /\ lastEnded = NULL
    /\ lastSaved = NULL

\* ---------------------------------------------------------------- helpers
\* Variant of addLog: the entry is put in front.
addLogInFront(prev, message, type) == << LogEntry(message, type) >> \o prev

\* addLog: setLogs(prev => [...prev, entry])
addLog(prev, message, type) == Append(prev, LogEntry(message, type))

\* Variant of addLogEach: only the first error is logged.
addLogFirstOnly(prev, errs) ==
    IF errs = << >> THEN prev ELSE Append(prev, [message |-> Head(errs), type |-> "error"])

\* validation.errors.forEach(err => addLog(err, 'error'))
RECURSIVE addLogEach(_, _)
addLogEach(prev, errs) ==
    IF errs = << >> THEN prev
    ELSE addLogEach(addLog(prev, Head(errs), "error"), Tail(errs))

\* The log has room for n more entries besides the one entry that every call
\* in flight (an ingestion, a run) still appends when it ends (bound of the
\* model: room is claimed when work is started, so that no call in flight is
\* ever kept from ending).
CanLog(n) == Len(logs) + n + Cardinality(pending) + Len(runs) <= MaxLog

\* The same for a log that is cleared first.
CanLogAfterClear(n) == n + Cardinality(pending) + Len(runs) <= MaxLog

\* setX(prev => ({...prev, [type]: value}))
SetSlot(prev, type, value) == [prev EXCEPT ![type] = value]

\* const canRun = fileStatus.input === 'valid' && fileStatus.results === 'valid'
canRun == fileStatus["input"] = "valid" /\ fileStatus["results"] = "valid"

\* Variant of RunButtonEnabled: disabled={!canRun}, the processing flag forgotten.
RunButtonIgnoresProcessing == canRun

\* <Button disabled={!canRun || isProcessing}>
RunButtonEnabled == canRun /\ ~isProcessing

\* {(fileStatus.input !== 'waiting' || fileStatus.results !== 'waiting') && <button>}
ResetButtonShown == fileStatus["input"] # "waiting" \/ fileStatus["results"] # "waiting"

\* Variant of CacheAfterInvalid: the failing slot keeps its cached data.
CacheKeptByInvalid(prev, type) == prev

\* Variant of CacheAfterInvalid: the failing slot clears the whole cache.
CacheClearedByInvalid(prev, type) == [t \in FileTypes |-> NULL]

\* fileDataCache.current[type] = null (lines 64 and 75)
CacheAfterInvalid(prev, type) == SetSlot(prev, type, NULL)

\* Variant of OutputAtRunStart: the previous bundle is left in place.
OutputKeptAtRunStart(prev) == prev

\* setOutputData(null) of line 86
OutputAtRunStart(prev) == NULL

\* Variant of CacheAfterReset: the reset forgets the cache.
CacheKeptByReset(prev) == prev

\* fileDataCache.current = { input: null, results: null } (line 136)
CacheAfterReset(prev) == [t \in FileTypes |-> NULL]

\* Variant of FailureLog: a run without output ends silently.
FailureLogSilentOnNoOutput(prev, kind) ==
    IF kind = "none" THEN prev
    ELSE addLog(prev, Msg("An unexpected error occurred during transformation",
                          Msg("processing failed", NULL)), "error")

\* The else branch of line 99 throws into the catch block of lines 101-103,
\* as an exception of the processing call does: one error entry either way.
FailureLog(prev, kind) ==
    addLog(prev, Msg("An unexpected error occurred during transformation",
                     IF kind = "none"
                     THEN Msg("Transformation did not produce any output data.", NULL)
                     ELSE Msg("processing failed", NULL)), "error")

\* Variant of StatusAfterThrow: the catch block leaves the status alone.
StatusLeftByThrow(prev, type) == prev

\* setFileStatus(prev => ({...prev, [type]: 'invalid' })) of the catch block (line 73)
StatusAfterThrow(prev, type) == SetSlot(prev, type, "invalid")

\* Variant of ProcessingAfterSettle: the flag is cleared on success only.
ProcessingKeptOnFailure(kind) == kind # "output"

\* finally { setIsProcessing(false) } (lines 104-106)
ProcessingAfterSettle(kind) == FALSE

\* Variant of DownloadButtons: two file names are swapped.
DownloadButtonsSwapped ==
    { << "scouted", "2_Retrieved_Data.xlsx" >>,
      << "retrieved", "1_Scouted_Lands.xlsx" >>,
      << "contacted", "3_Contacted_Data.xlsx" >> }

\* The download buttons of lines 250-258: the category and the file name each
\* hands to handleDownload.
DownloadButtons ==
    { << "scouted", "1_Scouted_Lands.xlsx" >>,
      << "retrieved", "2_Retrieved_Data.xlsx" >>,
      << "contacted", "3_Contacted_Data.xlsx" >> }

\* {outputData && ( ... download buttons ... )} (line 222)
DownloadButtonsShown == outputData # NULL

\* The sequence s without its i-th element.
RemoveAt(s, i) == SubSeq(s, 1, i - 1) \o SubSeq(s, i + 1, Len(s))

\* ---------------------------------------------------------------- actions
\* Dropzone.handleDrop / Dropzone.handleFileChange -> onFileSelect(files[0]) ->
\* App.handleFileChange(file, type), lines 52-58 up to the await.
HandleFileChange(file, type) ==
    /\ nextFile <= MaxFiles
    /\ file = File(nextFile)
    /\ Cardinality(pending) < MaxPending
    /\ CanLog(1)
    /\ files' = SetSlot(files, type, file)
    /\ outputData' = NULL
    /\ fileStatus' = SetSlot(fileStatus, type, "loading")
    /\ fileErrors' = SetSlot(fileErrors, type, NULL)
    /\ pending' = pending \cup { [type |-> type, file |-> file] }
    /\ nextFile' = nextFile + 1
    /\ UNCHANGED << logs, isProcessing, resetKey, fileDataCache, runs, lastEnded, lastSaved >>

\* App.handleFileChange after the await, lines 59-76: what the settled
\* call writes.
IngestUpdate(p, o) ==
    /\ p \in pending
    /\ o \in IngestOutcomes(p.file)
    /\ pending' = pending \ { p }
    /\ IF o.kind = "valid"
       THEN /\ CanLog(0)
            /\ fileDataCache' = SetSlot(fileDataCache, p.type, o.jsonData)
            /\ fileStatus' = SetSlot(fileStatus, p.type, "valid")
            /\ logs' = addLog(logs, Msg("loaded and validated successfully", p.file), "success")
            /\ UNCHANGED fileErrors
       ELSE IF o.kind = "invalid"
       THEN /\ CanLog(Len(o.errors) - 1)
            /\ fileDataCache' = CacheAfterInvalid(fileDataCache, p.type)
            /\ fileStatus' = SetSlot(fileStatus, p.type, "invalid")
            /\ fileErrors' = SetSlot(fileErrors, p.type, o.errors[1])
            /\ logs' = addLogEach(logs, o.errors)
       ELSE /\ CanLog(0)
            /\ logs' = addLog(logs, Msg("Error processing", o.errors[1]), "error")
            /\ fileStatus' = StatusAfterThrow(fileStatus, p.type)
            /\ fileErrors' = SetSlot(fileErrors, p.type, o.errors[1])
            /\ fileDataCache' = CacheAfterInvalid(fileDataCache, p.type)

\* Variant of IngestSettled: the ingestion that makes both slots valid starts
\* the processing by itself.
IngestSettledStartsRun(p, o) ==
    /\ IngestUpdate(p, o)
    /\ IF fileStatus'["input"] = "valid" /\ fileStatus'["results"] = "valid" /\ runs = << >>
       THEN /\ isProcessing' = TRUE
            /\ runs' = Append(runs, [pc |-> "delay", input |-> NULL, results |-> NULL,
                                     atStart |-> fileDataCache', prevOutput |-> outputData])
       ELSE UNCHANGED << isProcessing, runs >>
    /\ UNCHANGED << files, outputData, resetKey, nextFile, lastEnded, lastSaved >>

\* App.handleFileChange after the await, lines 59-76, and all it leaves alone.
IngestSettled(p, o) ==
    /\ IngestUpdate(p, o)
    /\ UNCHANGED << files, isProcessing, outputData, resetKey, runs, nextFile, lastEnded, lastSaved >>

\* Variant of LogAfterRejectedRun: the log is cleared before the cache is tested.
LogClearedByRejectedRun(prev) ==
    addLog(<< >>, Msg("Both Input and Results files must be loaded and valid before running.", NULL), "error")

\* addLog("Both Input and Results files must be ...", 'error') of line 81
LogAfterRejectedRun(prev) ==
    addLog(prev, Msg("Both Input and Results files must be loaded and valid before running.", NULL), "error")

\* App.handleRunTransformation, lines 80-91 up to the await of the delay.
RunTransformationBody ==
    /\ Len(runs) < MaxRuns
    /\ IF fileDataCache["input"] = NULL \/ fileDataCache["results"] = NULL
       THEN /\ CanLog(1)
            /\ logs' = LogAfterRejectedRun(logs)
            /\ UNCHANGED << isProcessing, outputData, runs >>
       ELSE /\ CanLogAfterClear(2)
            /\ isProcessing' = TRUE
            /\ outputData' = OutputAtRunStart(outputData)
            /\ logs' = addLog(<< >>, Msg("Starting transformation process...", NULL), "info")
            /\ runs' = Append(runs, [pc |-> "delay", input |-> NULL, results |-> NULL,
                                     atStart |-> fileDataCache, prevOutput |-> outputData])
    /\ UNCHANGED << files, fileStatus, fileErrors, resetKey, fileDataCache, pending,
                    nextFile, lastEnded, lastSaved >>

\* App.handleRunTransformation invoked by a click on the Run button (line
\* 211), which the button's `disabled` attribute (line 212) allows only when
\* RunButtonEnabled.
HandleRunTransformation ==
    /\ RunButtonEnabled
    /\ RunTransformationBody

\* App.handleRunTransformation, line 94: the delay of line 91 is over and
\* transformData('process', ...) is called with what fileDataCache.current
\* holds now.
CallProcess(i) ==
    /\ i \in 1..Len(runs)
    /\ runs[i].pc = "delay"
    /\ runs' = [runs EXCEPT ![i] = [@ EXCEPT !.pc = "processing",
                                              !.input = fileDataCache["input"],
                                              !.results = fileDataCache["results"]]]
    /\ UNCHANGED << files, fileStatus, fileErrors, logs, isProcessing, outputData,
                    resetKey, fileDataCache, pending, nextFile, lastEnded, lastSaved >>

\* transformData('process', ...) reports a diagnostic (an orphaned-result
\* warning) through the addLog it was given.
TransformerLog(i) ==
    /\ i \in 1..Len(runs)
    /\ runs[i].pc = "processing"
    /\ CanLog(1)
    /\ logs' = addLog(logs, Msg("orphaned result", NULL), "info")
    /\ UNCHANGED << files, fileStatus, fileErrors, isProcessing, outputData,
                    resetKey, fileDataCache, pending, runs, nextFile, lastEnded, lastSaved >>

\* App.handleRunTransformation after the await of line 94, lines 95-106.
ProcessSettled(i, o) ==
    /\ i \in 1..Len(runs)
    /\ runs[i].pc = "processing"
    /\ o \in ProcessOutcomes(runs[i].input, runs[i].results)
    /\ CanLog(0)
    /\ IF o.kind = "output"
       THEN /\ outputData' = o.output
            /\ logs' = addLog(logs, Msg("Transformation complete. Output files are ready for download.", NULL), "success")
       ELSE /\ logs' = FailureLog(logs, o.kind)
            /\ UNCHANGED outputData
    /\ isProcessing' = ProcessingAfterSettle(o.kind)
    /\ runs' = RemoveAt(runs, i)
    /\ lastEnded' = [kind |-> o.kind, prevOutput |-> runs[i].prevOutput]
    /\ UNCHANGED << files, fileStatus, fileErrors, resetKey, fileDataCache, pending,
                    nextFile, lastSaved >>

\* App.handleDownload(key, fileName), lines 109-127; saved tells whether the
\* window.XLSX calls and window.saveAs of lines 116-121 go through or throw.
DownloadBody(key, fileName, saved) ==
    /\ IF outputData = NULL \/ outputData[key] = << >>
       THEN /\ CanLog(1)
            /\ logs' = addLog(logs, Msg("No data available to download for", [fileName |-> fileName]), "error")
            /\ UNCHANGED lastSaved
       ELSE /\ CanLog(2)
            /\ IF saved
               THEN /\ lastSaved' = [fileName |-> fileName, rows |-> outputData[key]]
                    /\ logs' = addLog(addLog(logs, Msg("Generating", [fileName |-> fileName]), "info"),
                                      Msg("downloaded successfully", [fileName |-> fileName]), "success")
               ELSE /\ UNCHANGED lastSaved
                    /\ logs' = addLog(addLog(logs, Msg("Generating", [fileName |-> fileName]), "info"),
                                      Msg("Failed to generate", [fileName |-> fileName]), "error")
    /\ UNCHANGED << files, fileStatus, fileErrors, isProcessing, outputData, resetKey,
                    fileDataCache, pending, runs, nextFile, lastEnded >>

\* A click on one of the download buttons, which are rendered only when
\* DownloadButtonsShown.
HandleDownload(key, fileName, saved) ==
    /\ DownloadButtonsShown
    /\ << key, fileName >> \in DownloadButtons
    /\ DownloadBody(key, fileName, saved)

\* App.handleReset, lines 129-139, invoked by a click on "Start Over", which
\* is rendered only when ResetButtonShown (line 148).
HandleReset ==
    /\ ResetButtonShown
    /\ resetKey < MaxResets
    /\ files' = [t \in FileTypes |-> NULL]
    /\ fileStatus' = [t \in FileTypes |-> "waiting"]
    /\ fileErrors' = [t \in FileTypes |-> NULL]
    /\ logs' = << >>
    /\ outputData' = NULL
    /\ fileDataCache' = CacheAfterReset(fileDataCache)
    /\ resetKey' = resetKey + 1
    /\ UNCHANGED << isProcessing, pending, runs, nextFile, lastEnded, lastSaved >>

Next ==
    \/ \E t \in FileTypes : HandleFileChange(File(nextFile), t)
    \/ \E p \in pending : \E o \in IngestOutcomes(p.file) : IngestSettled(p, o)
    \/ HandleRunTransformation
    \/ \E i \in 1..Len(runs) : CallProcess(i)
    \/ \E i \in 1..Len(runs) : TransformerLog(i)
    \/ \E i \in 1..Len(runs) : \E o \in ProcessOutcomes(runs[i].input, runs[i].results) : ProcessSettled(i, o)
    \/ HandleReset
    \/ \E b \in DownloadButtons : \E saved \in BOOLEAN : HandleDownload(b[1], b[2], saved)

Spec == Init /\ [][Next]_vars

\* Every call in flight goes on: the timer of line 91 fires, and every
\* transformData promise is settled (the processing call, and the ingestion
\* calls of either slot). Nothing is assumed of what the user does.
Fairness ==
    /\ WF_vars(\E i \in 1..Len(runs) : CallProcess(i))
    /\ WF_vars(\E i \in 1..Len(runs) :
                  \E o \in ProcessOutcomes(runs[i].input, runs[i].results) : ProcessSettled(i, o))
    /\ \A t \in FileTypes :
          WF_vars(\E p \in pending : \E o \in IngestOutcomes(p.file) :
                     p.type = t /\ IngestSettled(p, o))

FairSpec == Spec /\ Fairness

\* handleRunTransformation called while no run is in progress, whatever the
\* statuses of the slots are: the button's `!canRun` (line 212) is derived
\* from fileStatus, while the handler's own test (line 80) reads
\* fileDataCache; beside everything Next does.
NextDirect ==
    \/ Next
    \/ ~isProcessing /\ RunTransformationBody

SpecDirect == Init /\ [][NextDirect]_vars

\* ================================================================ claims
Other(t) == CHOOSE u \in FileTypes : u # t

\* The handleFileChange calls for slot t that await transformData.
PendingOf(t) == { p \in pending : p.type = t }

\* This step is a file selection for slot t, or the end of an ingestion of t.
IngestStep(t) == PendingOf(t)' # PendingOf(t)

\* This step makes the processing call of run i.
CallStep(i) ==
    /\ i <= Len(runs) /\ i <= Len(runs')
    /\ runs[i].pc = "delay" /\ runs'[i].pc = "processing"

\* This step ends a run.
RunEndStep == Len(runs') < Len(runs)

\* This step ends a run whose processing call threw or gave no output.
RunFailStep == RunEndStep /\ lastEnded'.kind # "output"

\* C1 (as claimed): whenever a run makes the processing call, both slots are
\* 'valid' and both cache entries are non-null.
C1_CallOnlyWhenBothValid ==
    [][\A i \in 1..MaxRuns :
          CallStep(i) => /\ canRun
                         /\ fileDataCache["input"] # NULL
                         /\ fileDataCache["results"] # NULL]_vars

\* C2: at most one run is in flight at any time.
C2_AtMostOneRun == Len(runs) <= 1

\* C2 witness: a run is in flight while both slots are valid, so that only the
\* processing flag keeps the Run button disabled.
C2_Witness == Len(runs) = 1 /\ canRun /\ isProcessing

\* C3 (as claimed): the data handed to the processing call are the cache
\* contents at the moment the Run action was accepted.
C3_RunUsesStartSnapshot ==
    \A i \in 1..Len(runs) :
        runs[i].pc = "processing" =>
            /\ runs[i].input = runs[i].atStart["input"]
            /\ runs[i].results = runs[i].atStart["results"]

\* The changes of a slot's status the ingestion state machine allows.
AllowedChange(from, to) ==
    \/ to = "waiting"
    \/ from = "waiting" /\ to = "loading"
    \/ from = "loading" /\ to \in {"valid", "invalid"}
    \/ from \in {"valid", "invalid"} /\ to = "loading"

\* C4 (as claimed): every change of a slot's status is a transition of the
\* ingestion state machine, and an ingestion ends only from 'loading', so that
\* no step takes valid to valid or invalid, invalid to valid, or waiting to
\* valid or invalid.
C4_StatusStateMachine ==
    [][\A t \in FileTypes :
          /\ fileStatus'[t] # fileStatus[t] => AllowedChange(fileStatus[t], fileStatus'[t])
          /\ (PendingOf(t)' # PendingOf(t) /\ PendingOf(t)' \subseteq PendingOf(t))
                => fileStatus[t] = "loading"]_vars

\* C5: the state right after handleReset has both statuses 'waiting', both
\* cache entries, files and error messages null, an empty log and no output.
C5_ResetIsTotal ==
    [][resetKey' # resetKey =>
          /\ \A t \in FileTypes : /\ fileStatus'[t] = "waiting"
                                  /\ fileDataCache'[t] = NULL
                                  /\ files'[t] = NULL
                                  /\ fileErrors'[t] = NULL
          /\ logs' = << >>
          /\ outputData' = NULL]_vars

\* C5 witness: a reset has happened while a run was in flight, and nothing
\* was selected since.
C5_Witness ==
    /\ resetKey > 0
    /\ runs # << >>
    /\ \A t \in FileTypes : fileStatus[t] = "waiting" /\ files[t] = NULL
                            /\ fileDataCache[t] = NULL
    /\ logs = << >> /\ outputData = NULL

\* C6 (as claimed): after a run whose processing call failed, outputData is
\* the bundle that was exposed before that run was started.
C6_PriorBundleUnaltered ==
    [][RunFailStep => outputData' = lastEnded'.prevOutput]_vars

\* C6 (amended): the end of a failed run leaves outputData as it was, and
\* that is null: the bundle exposed before the run was discarded when the run
\* was accepted, and no partial bundle is exposed.
C6_FailedRunExposesNothing ==
    [][RunFailStep => outputData' = outputData /\ outputData' = NULL]_vars

\* C6 witness: a run that was started while a bundle was exposed has failed.
C6_Witness ==
    /\ lastEnded # NULL
    /\ lastEnded.kind = "throw"
    /\ lastEnded.prevOutput # NULL
    /\ runs = << >>
    /\ outputData = NULL

\* C7: while a run is in flight outputData is null; a run whose processing
\* call throws or returns no output ends with outputData null and exactly one
\* entry, an error, appended to the log.
C7_BundleOrNothing ==
    [][/\ runs' # << >> => outputData' = NULL
       /\ RunFailStep => /\ outputData' = NULL
                         /\ Len(logs') = Len(logs) + 1
                         /\ SubSeq(logs', 1, Len(logs)) = logs
                         /\ logs'[Len(logs')].type = "error"
                         /\ logs'[Len(logs')].message.tpl =
                                "An unexpected error occurred during transformation"]_vars

\* C7 witness: a run has ended without output; its error is the last entry.
C7_Witness ==
    /\ lastEnded # NULL
    /\ lastEnded.kind = "none"
    /\ ~isProcessing
    /\ outputData = NULL
    /\ logs # << >>
    /\ logs[Len(logs)] = LogEntry(Msg("An unexpected error occurred during transformation",
                                      Msg("Transformation did not produce any output data.", NULL)),
                                  "error")

\* C8: a file selection for a slot and every end of its ingestion leave the
\* other slot's status, cached data, file, error message and pending
\* ingestions unchanged.
C8_SlotsIndependent ==
    [][\A t \in FileTypes :
          IngestStep(t) =>
              /\ fileStatus'[Other(t)] = fileStatus[Other(t)]
              /\ fileDataCache'[Other(t)] = fileDataCache[Other(t)]
              /\ files'[Other(t)] = files[Other(t)]
              /\ fileErrors'[Other(t)] = fileErrors[Other(t)]
              /\ PendingOf(Other(t))' = PendingOf(Other(t))]_vars

\* C8 witness: the ingestion of the results file has failed while the input
\* slot stays valid with its data.
C8_Witness ==
    /\ fileStatus["results"] = "invalid"
    /\ fileErrors["results"] # NULL
    /\ fileStatus["input"] = "valid"
    /\ fileDataCache["input"] # NULL
    /\ pending = { }

\* C9: a file selection or the end of an ingestion starts no run, makes no
\* processing call and never makes outputData non-null; a run is started and
\* the processing call is made only by steps that are neither.
C9_ProcessingOnDemand ==
    [][(\E t \in FileTypes : IngestStep(t)) =>
          /\ runs' = runs
          /\ isProcessing' = isProcessing
          /\ outputData' \in {NULL, outputData}]_vars

\* C9 witness: both slots are valid after their ingestions, and nothing runs
\* or has run.
C9_Witness ==
    /\ canRun
    /\ pending = { }
    /\ runs = << >> /\ ~isProcessing
    /\ lastEnded = NULL
    /\ outputData = NULL

\* C10 (as claimed): when no ingestion for a slot is in flight and the slot is
\* 'valid', its cache entry holds the data of the file recorded in files.
C10_CacheIsLatestUpload ==
    \A t \in FileTypes :
        (PendingOf(t) = { } /\ fileStatus[t] = "valid" /\ files[t] # NULL)
            => fileDataCache[t] = JsonData(files[t])

\* C11: a run in flight is eventually followed by a state where isProcessing
\* is false, however its processing call ends; and isProcessing is true only
\* while a run is in flight.
C11_EveryRunEnds ==
    /\ [](isProcessing => runs # << >>)
    /\ (runs # << >>) ~> (~isProcessing)

\* C11 witness: a run has ended with a bundle and the flag is down again.
C11_Witness ==
    /\ lastEnded # NULL
    /\ lastEnded.kind = "output"
    /\ runs = << >>
    /\ ~isProcessing
    /\ outputData # NULL

\* C16: a slot that is 'loading' eventually is 'valid', 'invalid' or 'waiting'.
C16_LoadingEnds ==
    \A t \in FileTypes :
        (fileStatus[t] = "loading") ~> (fileStatus[t] \in {"valid", "invalid", "waiting"})

\* C16 witness: the ingestion of the input file has thrown and the slot has
\* left 'loading' for 'invalid'.
C16_Witness ==
    /\ fileStatus["input"] = "invalid"
    /\ fileErrors["input"] = Msg("cannot read file", NULL)
    /\ PendingOf("input") = { }

\* The error entries of the messages es, in their order.
ErrorEntries(es) == [k \in 1..Len(es) |-> LogEntry(es[k], "error")]

\* C12: an ingestion of slot t that ends with errors e1..en leaves the slot
\* 'invalid' with a null cache entry, shows e1 and appends e1..en to the log
\* in that order as errors; one that throws leaves the slot 'invalid' with a
\* null cache entry, shows the exception message and appends one error entry.
\* (An ingestion that ends well appends one success entry, which tells it
\* from the other two.)
C12_FailedIngestionReported ==
    [][\A p \in pending :
          p \notin pending' =>
              \E o \in IngestOutcomes(p.file) :
                 \/ /\ o.kind = "valid"
                    /\ fileStatus'[p.type] = "valid"
                    /\ Len(logs') = Len(logs) + 1
                    /\ logs'[Len(logs')].type = "success"
                 \/ /\ o.kind = "invalid"
                    /\ fileStatus'[p.type] = "invalid"
                    /\ fileDataCache'[p.type] = NULL
                    /\ fileErrors'[p.type] = o.errors[1]
                    /\ logs' = logs \o ErrorEntries(o.errors)
                 \/ /\ o.kind = "throw"
                    /\ fileStatus'[p.type] = "invalid"
                    /\ fileDataCache'[p.type] = NULL
                    /\ fileErrors'[p.type] = o.errors[1]
                    /\ Len(logs') = Len(logs) + 1
                    /\ SubSeq(logs', 1, Len(logs)) = logs
                    /\ logs'[Len(logs')].type = "error"
                    /\ logs'[Len(logs')].message.arg = o.errors[1]]_vars

\* C12 witness: an ingestion of the results file has ended with two errors;
\* the first is shown and both are the last entries of the log, in order.
C12_Witness ==
    /\ fileStatus["results"] = "invalid"
    /\ fileDataCache["results"] = NULL
    /\ fileErrors["results"] = Msg("not a valid number in row", 2)
    /\ Len(logs) >= 2
    /\ logs[Len(logs) - 1] = LogEntry(Msg("not a valid number in row", 2), "error")
    /\ logs[Len(logs)] = LogEntry(Msg("missing required column", 1), "error")

\* C13 (as claimed): whenever outputData is non-null, both slots are 'valid'
\* and the bundle was computed from the data now in fileDataCache.
C13_OutputMatchesCache ==
    outputData # NULL =>
        /\ canRun
        /\ outputData.input = fileDataCache["input"]
        /\ outputData.results = fileDataCache["results"]

\* C14: in every state reached, a 'valid' slot has a non-null cache entry and
\* a 'waiting' or 'invalid' slot a null one; a 'loading' slot has a non-null
\* cache entry only while an ingestion for it is in flight, and it gets into
\* that state only from 'valid' (or stays in it on a further selection).
C14_StatusCacheConsistent ==
    [][\A t \in FileTypes :
          /\ fileStatus'[t] = "valid" => fileDataCache'[t] # NULL
          /\ fileStatus'[t] \in {"waiting", "invalid"} => fileDataCache'[t] = NULL
          /\ (fileStatus'[t] = "loading" /\ fileDataCache'[t] # NULL) =>
                /\ PendingOf(t)' # { }
                /\ fileDataCache[t] = fileDataCache'[t]
                /\ fileStatus[t] \in {"valid", "loading"}]_vars

\* C14 witness: a valid input slot is being re-uploaded (its earlier data is
\* still cached), and the results slot is invalid with nothing cached.
C14_Witness ==
    \E t \in FileTypes :
        /\ fileStatus[t] = "loading"
        /\ fileDataCache[t] # NULL
        /\ files[t] # NULL
        /\ fileDataCache[t] # JsonData(files[t])

\* C15 (as claimed): after a reset, as long as no file has been selected
\* (both files are still null), both slots are 'waiting', both cache entries
\* null and outputData null.
C15_NothingSurfacesAfterReset ==
    (resetKey > 0 /\ \A t \in FileTypes : files[t] = NULL) =>
        /\ \A t \in FileTypes : fileStatus[t] = "waiting" /\ fileDataCache[t] = NULL
        /\ outputData = NULL

\* The entry a rejected Run appends.
RejectedRunEntry ==
    LogEntry(Msg("Both Input and Results files must be loaded and valid before running.", NULL),
             "error")

\* C17: handleRunTransformation invoked while a cache entry is null appends
\* one error entry and changes nothing else: isProcessing, outputData, the
\* earlier log entries and the runs in flight stay as they are.
C17_RejectedRunOnlyLogs ==
    [][(RunTransformationBody /\ (fileDataCache["input"] = NULL \/ fileDataCache["results"] = NULL))
          => /\ logs' = Append(logs, RejectedRunEntry)
             /\ UNCHANGED << files, fileStatus, fileErrors, isProcessing, outputData,
                             resetKey, fileDataCache, pending, runs, lastSaved >>]_vars

\* C17 witness: a Run has been rejected after an earlier entry was logged: a
\* cache entry is null and the rejection is the last entry of the log.
C17_Witness ==
    /\ fileDataCache["input"] = NULL \/ fileDataCache["results"] = NULL
    /\ Len(logs) >= 2
    /\ logs[Len(logs)] = RejectedRunEntry
    /\ runs = << >> /\ ~isProcessing

IsPrefix(a, b) == Len(a) <= Len(b) /\ SubSeq(b, 1, Len(a)) = a

\* C18: every step leaves the log as it is or appends to it, keeping the
\* earlier entries and their order, unless it is a reset (the log is empty
\* after it) or the acceptance of a Run (the log holds its first entry only).
C18_LogAppendOnly ==
    [][\/ IsPrefix(logs, logs')
       \/ resetKey' # resetKey /\ logs' = << >>
       \/ /\ Len(runs') = Len(runs) + 1
          /\ logs' = << LogEntry(Msg("Starting transformation process...", NULL), "info") >>]_vars

\* C18 witness: the log of a run that succeeded, in the order of the events.
C18_Witness ==
    /\ Len(logs) >= 3
    /\ logs[1] = LogEntry(Msg("Starting transformation process...", NULL), "info")
    /\ logs[2].message.tpl = "orphaned result"
    /\ logs[3].type = "success"

\* The name each category is exported under.
FixedName(key) ==
    CASE key = "scouted" -> "1_Scouted_Lands.xlsx"
      [] key = "retrieved" -> "2_Retrieved_Data.xlsx"
      [] key = "contacted" -> "3_Contacted_Data.xlsx"

\* C19: handleDownload leaves outputData, the statuses and the cache as they
\* are; a file is handed to the browser only when outputData is non-null and
\* the category has records, and then it holds that category's records under
\* the category's fixed name; otherwise one error entry is appended and no
\* file is generated.
C19_DownloadGuarded ==
    [][/\ lastSaved' # lastSaved =>
             /\ outputData # NULL
             /\ \E k \in Categories :
                   /\ outputData[k] # << >>
                   /\ lastSaved' = [fileName |-> FixedName(k), rows |-> outputData[k]]
       /\ \A b \in DownloadButtons : \A saved \in BOOLEAN :
             DownloadBody(b[1], b[2], saved) =>
                /\ outputData' = outputData
                /\ fileStatus' = fileStatus
                /\ fileDataCache' = fileDataCache
                /\ (IF outputData = NULL THEN TRUE ELSE outputData[b[1]] = << >>) =>
                      /\ lastSaved' = lastSaved
                      /\ Len(logs') = Len(logs) + 1
                      /\ SubSeq(logs', 1, Len(logs)) = logs
                      /\ logs'[Len(logs')].type = "error"]_vars

\* C19 witness: the scouted records were exported, and a download of a
\* category without records was then refused with an error.
C19_Witness ==
    /\ lastSaved # NULL
    /\ lastSaved.fileName = "1_Scouted_Lands.xlsx"
    /\ outputData # NULL
    /\ outputData["contacted"] = << >>
    /\ logs # << >>
    /\ logs[Len(logs)] = LogEntry(Msg("No data available to download for",
                                      [fileName |-> "3_Contacted_Data.xlsx"]), "error")
====
